---- MODULE Spec2Model ----
(***************************************************************************)
(* A model of go-check-certs: the worker pool of processHosts (queueHosts, *)
(* processQueue, the WaitGroup closer and the aggregator loop), the        *)
(* per-host certificate walk (checkVerifiedHost, checkUnverfiedHost) and   *)
(* the policy evaluation of one certificate (checkCert).                   *)
(*                                                                         *)
(* Time is an integer number of units since 1970-01-01T00:00Z; an hour is  *)
(* UnitsPerHour units, so that instants between whole hours exist.         *)
(***************************************************************************)
EXTENDS Integers, Sequences, FiniteSets, Bags, TLC

VARIABLES
    (* the flag variables of the program (package-level pointers) *)
    warnYears, warnMonths, warnDays, checkSigAlg, concurrency,
    (* time.Now() when the package variables were initialised: the sunset   *)
    (* date of the MD2 and MD5 entries of sunsetSigAlgs                     *)
    startTime,
    (* the hosts file: readable or not, and its lines (strings.Split)       *)
    fileOk, lines,
    (* main / processHosts: position, and the three channels' closed flags  *)
    mainPc, hostsClosed, resultsClosed, doneClosed,
    (* the goroutine of queueHosts: position and index of the current line  *)
    prodPc, prodIdx,
    (* the pool: the worker goroutines (a bag of records: the goroutines    *)
    (* are anonymous closures and carry no identity), the WaitGroup counter *)
    (* and the goroutine that waits for it                                  *)
    workers, wg, closerPc,
    (* what the loop "for r := range results" has received, in order        *)
    received,
    (* history: the number of checkHost calls started, the hosts sent on    *)
    (* the channel hosts, in order, and the signatures that probes have     *)
    (* entered in their checkedCerts maps                                   *)
    nProbes, enqueued, seenSigs,
    (* the number of TLS connections that are open                          *)
    openConns,
    (* harness of the pure functions: the call under test and its result    *)
    call, ret,
    (* the polling program check-certs.go: the hosts of the command line,   *)
    (* the two buffered channels of main (the hosts queued, the number of   *)
    (* markers), main's position and the index of the host it sends next,   *)
    (* the goroutines of processHost, and, as history, the number of        *)
    (* checkCert calls that have returned                                   *)
    checkHosts, checkCertChan, processingChan, pollPc, hostIdx, processors,
    nChecked

vars == << warnYears, warnMonths, warnDays, checkSigAlg, concurrency, startTime,
           fileOk, lines, mainPc, hostsClosed, resultsClosed, doneClosed,
           prodPc, prodIdx, workers, wg, closerPc, received,
           nProbes, enqueued, seenSigs, openConns, call, ret,
           checkHosts, checkCertChan, processingChan, pollPc, hostIdx,
           processors, nChecked >>

flagVars == << warnYears, warnMonths, warnDays, checkSigAlg, startTime >>
pollVars == << checkHosts, checkCertChan, processingChan, pollPc, hostIdx,
               processors, nChecked >>
poolVars == << concurrency, fileOk, lines, mainPc, hostsClosed, resultsClosed,
               doneClosed, prodPc, prodIdx, workers, wg, closerPc, received,
               nProbes, enqueued, seenSigs, openConns >>

(***************************************************************************)
(* Bounds of the model.                                                    *)
(***************************************************************************)
UnitsPerHour == 2
MaxLines == 3
MaxConcurrency == 2
MaxChainLen == 2
MaxChains == 2
MaxWarn == 2
MaxHosts == 2

(***************************************************************************)
(* Program constants.                                                      *)
(***************************************************************************)
defaultConcurrency == 8
shortlyHours == 48
hoursPerDay == 24
defaultWarnDays == 30
maxConnections == 4

UnitsPerDay == hoursPerDay * UnitsPerHour

(***************************************************************************)
(* Calendar arithmetic of package time (proleptic Gregorian, UTC).         *)
(***************************************************************************)
\* Op applied to the value of v, which is computed once
With(v, Op(_)) == CHOOSE r \in { Op(x) : x \in { v } } : TRUE

\* days from 1970-01-01 to the civil date y-m-d, m in 1..12, d any integer
DaysFromCivil(y, m, d) ==
    LET yy  == IF m <= 2 THEN y - 1 ELSE y
        era == yy \div 400
        yoe == yy - era * 400
        mp  == IF m > 2 THEN m - 3 ELSE m + 9
        doy == (153 * mp + 2) \div 5 + d - 1
        doe == yoe * 365 + yoe \div 4 - yoe \div 100 + doy
    IN  era * 146097 + doe - 719468

\* the civil date <<y, m, d>> of a day number
CivilFromDays(z) ==
    LET zz  == z + 719468
        era == zz \div 146097
        doe == zz - era * 146097
        yoe == (doe - doe \div 1460 + doe \div 36524 - doe \div 146096) \div 365
        doy == doe - (365 * yoe + yoe \div 4 - yoe \div 100)
        mp  == (5 * doy + 2) \div 153
        d   == doy - (153 * mp + 2) \div 5 + 1
        m   == IF mp < 10 THEN mp + 3 ELSE mp - 9
        y   == yoe + era * 400 + (IF m <= 2 THEN 1 ELSE 0)
    IN  << y, m, d >>

\* time.Date(y, m, d, 0, 0, 0, 0, UTC) plus tod units: month and day overflow
\* are normalised (month 13 is January of the next year, day 31 of a 29-day
\* February is March 2nd)
Date(y, m, d, tod) ==
    LET m0 == m - 1
        yn == y + m0 \div 12
        mn == (m0 % 12) + 1
    IN  DaysFromCivil(yn, mn, d) * UnitsPerDay + tod

\* t.AddDate(years, months, days): the calendar date is shifted, the clock kept
AddDate(t, years, months, days) ==
    With(CivilFromDays(t \div UnitsPerDay),
         LAMBDA ymd : Date(ymd[1] + years, ymd[2] + months, ymd[3] + days,
                           t % UnitsPerDay))

\* Go's integer division and int64(float) conversion truncate toward zero
GoDiv(a, b) == IF a >= 0 THEN a \div b ELSE -((-a) \div b)

\* int64(d.Hours()) for a duration of d units
HoursOf_Floor(d) == d \div UnitsPerHour
HoursOf(d) == GoDiv(d, UnitsPerHour)

(***************************************************************************)
(* Certificates and the sunset table.                                      *)
(***************************************************************************)
errNil == "nil"
errDial == "dial error"

\* the keys of sunsetSigAlgs
SunsetAlgs == { "MD2WithRSA", "MD5WithRSA", "SHA1WithRSA", "DSAWithSHA1",
                "ECDSAWithSHA1" }

\* time.Date(2017, 1, 1, 0, 0, 0, 0, time.UTC)
sha1SunsetsAt == Date(2017, 1, 1, 0)

\* sunsetSigAlgs[alg]: MD2 and MD5 sunset at time.Now() of package
\* initialisation, the SHA1 family on 2017-01-01T00:00:00Z
sunsetSigAlgs(alg) ==
    CASE alg = "MD2WithRSA"    -> [ name |-> "MD2 with RSA",    sunsetsAt |-> startTime ]
      [] alg = "MD5WithRSA"    -> [ name |-> "MD5 with RSA",    sunsetsAt |-> startTime ]
      [] alg = "SHA1WithRSA"   -> [ name |-> "SHA1 with RSA",   sunsetsAt |-> sha1SunsetsAt ]
      [] alg = "DSAWithSHA1"   -> [ name |-> "DSA with SHA1",   sunsetsAt |-> sha1SunsetsAt ]
      [] alg = "ECDSAWithSHA1" -> [ name |-> "ECDSA with SHA1", sunsetsAt |-> sha1SunsetsAt ]

\* the error values checkCert builds with fmt.Errorf: the format and its
\* arguments (n: hours or days; alg: the algorithm's name)
ErrExpiringShortly(host, cert, n) ==
    [ fmt |-> "errExpiringShortly", host |-> host, cn |-> cert.cn, n |-> n, alg |-> "" ]
ErrExpiringSoon(host, cert, n) ==
    [ fmt |-> "errExpiringSoon", host |-> host, cn |-> cert.cn, n |-> n, alg |-> "" ]
ErrSunsetAlg(host, cert, name) ==
    [ fmt |-> "errSunsetAlg", host |-> host, cn |-> cert.cn, n |-> 0, alg |-> name ]

\* the condition of the expiration check
ExpirationDue_NotBefore(timeNow, notAfter) ==
    AddDate(timeNow, warnYears, warnMonths, warnDays) >= notAfter
ExpirationDue(timeNow, notAfter) ==
    AddDate(timeNow, warnYears, warnMonths, warnDays) > notAfter

\* the branch of the expiration check: "if expiresIn <= 48"
ExpiresShortly_Strict(expiresIn) == expiresIn < shortlyHours
ExpiresShortly(expiresIn) == expiresIn <= shortlyHours

\* the expiration check of checkCert: zero or one error
ExpirationErrs(host, cert, timeNow) ==
    IF ExpirationDue(timeNow, cert.notAfter)
    THEN LET expiresIn == HoursOf(cert.notAfter - timeNow)
         IN  IF ExpiresShortly(expiresIn)
             THEN << ErrExpiringShortly(host, cert, expiresIn) >>
             ELSE << ErrExpiringSoon(host, cert, GoDiv(expiresIn, hoursPerDay)) >>
    ELSE << >>

\* the guard of the signature algorithm check; certNum counts from 0
SunsetChecked_RootIncluded(alg, certNum, n) ==
    checkSigAlg /\ alg \in SunsetAlgs
SunsetChecked(alg, certNum, n) ==
    checkSigAlg /\ alg \in SunsetAlgs /\ certNum # n - 1

\* cert.NotAfter.Equal(alg.sunsetsAt) || cert.NotAfter.After(alg.sunsetsAt)
SunsetReached_After(notAfter, sunsetsAt) == notAfter > sunsetsAt
SunsetReached(notAfter, sunsetsAt) == notAfter = sunsetsAt \/ notAfter > sunsetsAt

\* the signature algorithm check of checkCert: zero or one error
SunsetErrs(host, cert, certNum, n) ==
    IF SunsetChecked(cert.alg, certNum, n)
    THEN LET alg == sunsetSigAlgs(cert.alg)
         IN  IF SunsetReached(cert.notAfter, alg.sunsetsAt)
             THEN << ErrSunsetAlg(host, cert, alg.name) >>
             ELSE << >>
    ELSE << >>

\* checkCert(host, certNum, certs), with timeNow the value of time.Now()
checkCert_SunsetFirst(host, certNum, certs, timeNow) ==
    LET cert == certs[certNum + 1]
    IN  [ commonName |-> cert.cn,
          errs |-> SunsetErrs(host, cert, certNum, Len(certs))
                   \o ExpirationErrs(host, cert, timeNow) ]
checkCert(host, certNum, certs, timeNow) ==
    LET cert == certs[certNum + 1]
    IN  [ commonName |-> cert.cn,
          errs |-> ExpirationErrs(host, cert, timeNow)
                   \o SunsetErrs(host, cert, certNum, Len(certs)) ]

(***************************************************************************)
(* The probe of one host. conn is what tls.Dial returns: err, and for a    *)
(* completed handshake VerifiedChains and PeerCertificates.                *)
(***************************************************************************)
\* whether checkVerifiedHost skips a certificate: its signature is in the map
AlreadyChecked_Never(checkedCerts, cert) == FALSE
AlreadyChecked(checkedCerts, cert) == cert.sig \in checkedCerts

\* the inner loop of checkVerifiedHost from certNum on; acc is
\* [checkedCerts, certs]
RECURSIVE WalkChain(_, _, _, _, _)
WalkChain(host, chain, certNum, acc, timeNow) ==
    IF certNum >= Len(chain) THEN acc
    ELSE LET cert == chain[certNum + 1]
         IN  IF AlreadyChecked(acc.checkedCerts, cert)
             THEN WalkChain(host, chain, certNum + 1, acc, timeNow)
             ELSE With([ checkedCerts |-> acc.checkedCerts \cup { cert.sig },
                         certs |-> Append(acc.certs,
                                          checkCert(host, certNum, chain, timeNow)) ],
                       LAMBDA next : WalkChain(host, chain, certNum + 1, next, timeNow))

\* the outer loop of checkVerifiedHost from chain i on
RECURSIVE WalkChains(_, _, _, _, _)
WalkChains(host, chains, i, acc, timeNow) ==
    IF i > Len(chains) THEN acc
    ELSE With(WalkChain(host, chains[i], 0, acc, timeNow),
              LAMBDA next : WalkChains(host, chains, i + 1, next, timeNow))

\* checkVerifiedHost: "checkedCerts := make(map[string]struct{})", a map of
\* the call
makeCheckedCerts_Shared == seenSigs
makeCheckedCerts == {}

checkVerifiedHost_ErrUnset(host, conn, timeNow) ==
    IF conn.err # errNil
    THEN [ host |-> host, err |-> errNil, certs |-> << >> ]
    ELSE [ host |-> host, err |-> errNil,
           certs |-> WalkChains(host, conn.VerifiedChains, 1,
                                [ checkedCerts |-> {}, certs |-> << >> ],
                                timeNow).certs ]

checkVerifiedHost(host, conn, timeNow) ==
    IF conn.err # errNil
    THEN [ host |-> host, err |-> conn.err, certs |-> << >> ]
    ELSE [ host |-> host, err |-> errNil,
           certs |-> WalkChains(host, conn.VerifiedChains, 1,
                                [ checkedCerts |-> makeCheckedCerts, certs |-> << >> ],
                                timeNow).certs ]

checkUnverfiedHost_Dedup(host, conn, timeNow) ==
    IF conn.err # errNil
    THEN [ host |-> host, err |-> conn.err, certs |-> << >> ]
    ELSE [ host |-> host, err |-> errNil,
           certs |-> WalkChain(host, conn.PeerCertificates, 0,
                               [ checkedCerts |-> {}, certs |-> << >> ],
                               timeNow).certs ]

checkUnverfiedHost(host, conn, timeNow) ==
    IF conn.err # errNil
    THEN [ host |-> host, err |-> conn.err, certs |-> << >> ]
    ELSE [ host |-> host, err |-> errNil,
           certs |-> [ k \in 1..Len(conn.PeerCertificates) |->
                         checkCert(host, k - 1, conn.PeerCertificates, timeNow) ] ]

\* whether the line selects the unverified probe: it starts with "i "
InsecurePrefix_FirstChar(host) == Len(host) >= 1 /\ SubSeq(host, 1, 1) = << "i" >>
InsecurePrefix(host) == Len(host) >= 2 /\ SubSeq(host, 1, 2) = << "i", " " >>

checkHost(host, conn, timeNow) ==
    IF InsecurePrefix(host)
    THEN checkUnverfiedHost(SubSeq(host, 3, Len(host)), conn, timeNow)
    ELSE checkVerifiedHost(host, conn, timeNow)

(***************************************************************************)
(* Input domains.                                                          *)
(***************************************************************************)
Hours(n) == n * UnitsPerHour
Days(n) == n * UnitsPerDay

\* instants at which time.Now() is read: noon of a January 31st of a leap
\* year, and a midnight three weeks before the SHA1 sunset date
NowSet == { Date(2016, 1, 31, Hours(12)), Date(2016, 12, 10, 0) }

\* how long before timeNow the package variables were initialised
StartLagSet == { 0, 1 }

\* expiry instants of the certificates under test, relative to timeNow
NotAfterOffsets ==
    { -Hours(30) - 1, -Hours(1) - 1, -Hours(1), -1, 0, 1, Hours(1) - 1,
      Hours(40), Hours(48), Hours(48) + 1, Hours(49) - 1, Hours(49),
      Hours(240), Days(30) - 1, Days(30), Days(31) - 1, Days(31),
      Days(365), Days(366) - 1, Days(366), Days(400) }

\* expiry instants around the SHA1 sunset date
NotAfterDates == { Date(2017, 1, 1, 0) - 1, Date(2017, 1, 1, 0), Date(2018, 1, 1, 0) }

NotAfterSet(timeNow) == { timeNow + o : o \in NotAfterOffsets } \cup NotAfterDates

AlgSet == { "SHA256WithRSA", "SHA1WithRSA", "ECDSAWithSHA1", "MD5WithRSA" }

\* warning windows as main leaves them: non-negative and not all zero
WarnWindows == { << 0, 0, defaultWarnDays >>, << 0, 0, 1 >>, << 0, 1, 0 >>, << 1, 0, 0 >> }

hostA == << "a" >>

\* the other certificates of a chain whose certificate certNum is under test
fillerCert == [ cn |-> "filler", sig |-> "sigF", alg |-> "SHA256WithRSA",
                notAfter |-> Date(2030, 1, 1, 0) ]

ChainAround(cert, certNum, n) ==
    [ k \in 1..n |-> IF k = certNum + 1 THEN cert ELSE fillerCert ]

\* the calls of checkCert explored
CheckCertCalls(timeNow) ==
    { [ fn |-> "checkCert", host |-> hostA, certNum |-> certNum,
        certs |-> ChainAround([ cn |-> "leaf", sig |-> "sigL", alg |-> alg,
                                notAfter |-> na ], certNum, n),
        timeNow |-> timeNow ] :
      <<certNum, n>> \in { pn \in (0..MaxChainLen - 1) \X (1..MaxChainLen) : pn[1] < pn[2] },
      alg \in AlgSet, na \in NotAfterSet(timeNow) }

\* certificates of the chains explored: certA and certA2 carry the same
\* signature bytes; all outlive the SHA1 sunset date
certA  == [ cn |-> "A",  sig |-> "sigA", alg |-> "SHA1WithRSA",
            notAfter |-> Date(2018, 1, 1, 0) ]
certA2 == [ cn |-> "A2", sig |-> "sigA", alg |-> "SHA256WithRSA",
            notAfter |-> Date(2016, 12, 11, 0) ]
certB  == [ cn |-> "B",  sig |-> "sigB", alg |-> "SHA1WithRSA",
            notAfter |-> Date(2018, 1, 1, 0) ]
CertSet == { certA, certA2, certB }

SeqsUpTo(S, lo, hi) == UNION { [ 1..n -> S ] : n \in lo..hi }

ChainSet == SeqsUpTo(CertSet, 1, MaxChainLen)

\* what tls.Dial can return: an error, or a connection whose state holds the
\* verified chains (verified handshake) or the peer's list (InsecureSkipVerify)
dialFailure == [ err |-> errDial, VerifiedChains |-> << >>, PeerCertificates |-> << >> ]

VerifiedConns ==
    { [ err |-> errNil, VerifiedChains |-> vc, PeerCertificates |-> vc[1] ] :
      vc \in SeqsUpTo(ChainSet, 1, MaxChains) }

PeerConns ==
    { [ err |-> errNil, VerifiedChains |-> << >>, PeerCertificates |-> pc ] :
      pc \in ChainSet }

\* the calls of checkVerifiedHost and checkUnverfiedHost explored
CheckHostCalls(timeNow) ==
    { [ fn |-> "checkVerifiedHost", host |-> hostA, conn |-> c, timeNow |-> timeNow ] :
      c \in VerifiedConns \cup { dialFailure } }
    \cup
    { [ fn |-> "checkUnverfiedHost", host |-> hostA, conn |-> c, timeNow |-> timeNow ] :
      c \in PeerConns \cup { dialFailure } }

\* a server that sends its leaf alone, which verifies against a root of the
\* system's pool
leafOnlyConn == [ err |-> errNil,
                  VerifiedChains |-> << << certA, certB >> >>,
                  PeerCertificates |-> << certA >> ]

\* the lines checkHost is called with, as queueHosts passes them on
HostLineSet == { << "a" >>, << "i" >>, << "i", " ", "b" >>, << "i", "b" >>,
                 << "i", " ", " ", "b" >> }

\* the calls of checkHost explored
CheckHostLineCalls(timeNow) ==
    { [ fn |-> "checkHost", host |-> h, conn |-> c, timeNow |-> timeNow ] :
      h \in HostLineSet, c \in { dialFailure, leafOnlyConn } }

NoCall == [ fn |-> "none" ]

(***************************************************************************)
(* The hosts file and the pool.                                            *)
(***************************************************************************)
IsSpace(c) == c \in { " ", "\t", "\r" }

\* strings.TrimSpace
RECURSIVE TrimLeft(_)
TrimLeft(str) ==
    IF str # << >> /\ IsSpace(Head(str)) THEN TrimLeft(Tail(str)) ELSE str

RECURSIVE TrimRight(_)
TrimRight(str) ==
    IF str # << >> /\ IsSpace(str[Len(str)])
    THEN TrimRight(SubSeq(str, 1, Len(str) - 1)) ELSE str

TrimSpace(str) == TrimRight(TrimLeft(str))

\* the lines queueHosts passes over: len(host) == 0 || host[0] == '#'
SkippedLine_EmptyOnly(host) == Len(host) = 0
SkippedLine(host) == IF Len(host) = 0 THEN TRUE ELSE host[1] = "#"

\* lines a hosts file is made of: a host between blanks, a host to probe
\* without verification, a comment and a line of blanks
LineSet == { << " ", "a", "\t" >>, << "i", " ", "b" >>, << "#", "c" >>, << " " >> }

\* lines of the hosts files of the runs checked under fairness
FairLineSet == { << " ", "a", "\t" >>, << "#", "c" >> }

\* the -concurrency values explored
ConcurrencyFlags == (-1)..MaxConcurrency

\* the instant of the pool's run
poolNow == Date(2016, 12, 10, 0)

\* what the hosts of the pool's run answer when the handshake succeeds
goodConn == [ err |-> errNil,
              VerifiedChains |-> << << certA, certB >>, << certA2, certB >> >>,
              PeerCertificates |-> << certA, certB >> ]
PoolConns == { dialFailure, goodConn }

noResult == [ host |-> << >>, err |-> errNil, certs |-> << >> ]
noConn == [ err |-> "no connection", VerifiedChains |-> << >>, PeerCertificates |-> << >> ]
idleWorker == [ pc |-> "recv", host |-> << >>, conn |-> noConn, res |-> noResult ]
exitedWorker == [ pc |-> "exit", host |-> << >>, conn |-> noConn, res |-> noResult ]

\* n goroutines at the head of processQueue's loop
NewWorkers(n) == IF n > 0 THEN [ wk \in { idleWorker } |-> n ] ELSE EmptyBag

\* the bag b after one goroutine in state from has moved to state to
Moved(b, from, to) == (b (-) SetToBag({ from })) (+) SetToBag({ to })

\* the goroutines of the pool in one of the given positions
WorkersAt(pcs) == { wk \in BagToSet(workers) : wk.pc \in pcs }

\* main, lines 88-102: the sanity checks of the flags
NormWarn(v) == IF v < 0 THEN 0 ELSE v
NormWarnDays_NoDefault(y, m, d) == NormWarn(d)
NormWarnDays(y, m, d) ==
    IF NormWarn(y) = 0 /\ NormWarn(m) = 0 /\ NormWarn(d) = 0
    THEN defaultWarnDays ELSE NormWarn(d)
NormConcurrency(c) == IF c < 0 THEN defaultConcurrency ELSE c

\* processHosts: "defer close(done)" leaves done open while the function runs
doneClosedOnEntry_NoDefer == TRUE
doneClosedOnEntry == FALSE

\* processHosts: wg.Add(*concurrency)
wgAdd(c) == c

\* processHosts: the number of goroutines "for i := 0; i < *concurrency; i++" starts
PoolSize_OffByOne(c) == c + 1
PoolSize(c) == c

\* queueHosts: "defer close(hosts)" closes hosts when the goroutine returns
hostsClosedOnReturn_NoDefer == FALSE
hostsClosedOnReturn == TRUE

\* queueHosts: "for _, line := range lines" moves on to the next line
NextLine_SkipOne(i) == i + 2
NextLine(i) == i + 1

Main ==
    /\ mainPc = "main"
    /\ warnYears' = NormWarn(warnYears)
    /\ warnMonths' = NormWarn(warnMonths)
    /\ warnDays' = NormWarnDays(warnYears, warnMonths, warnDays)
    /\ concurrency' = NormConcurrency(concurrency)
    /\ mainPc' = "processHosts"
    /\ UNCHANGED << checkSigAlg, startTime, fileOk, lines, hostsClosed, resultsClosed,
                    doneClosed, prodPc, prodIdx, workers, wg, closerPc, received,
                    nProbes, enqueued, seenSigs, openConns, call, ret, pollVars >>

\* processHosts, lines 108-125: the channels, the producer, the workers and
\* the goroutine that closes results are set up
ProcessHostsStart ==
    /\ mainPc = "processHosts"
    /\ doneClosed' = doneClosedOnEntry
    /\ prodPc' = "read"
    /\ wg' = wgAdd(concurrency)
    /\ workers' = NewWorkers(PoolSize(concurrency))
    /\ closerPc' = "wait"
    /\ mainPc' = "range"
    /\ UNCHANGED << flagVars, concurrency, fileOk, lines, hostsClosed, resultsClosed,
                    prodIdx, received, nProbes, enqueued, seenSigs, openConns, call, ret, pollVars >>

\* queueHosts: ioutil.ReadFile; on an error the goroutine returns
ProducerRead ==
    /\ prodPc = "read"
    /\ IF fileOk
       THEN prodPc' = "loop" /\ prodIdx' = 1 /\ UNCHANGED hostsClosed
       ELSE prodPc' = "exit" /\ hostsClosed' = hostsClosedOnReturn /\ UNCHANGED prodIdx
    /\ UNCHANGED << flagVars, concurrency, fileOk, lines, mainPc, resultsClosed,
                    doneClosed, workers, wg, closerPc, received, nProbes, enqueued, seenSigs, openConns, call, ret, pollVars >>

\* queueHosts: a blank or comment line: continue
ProducerSkip ==
    /\ prodPc = "loop"
    /\ prodIdx <= Len(lines)
    /\ SkippedLine(TrimSpace(lines[prodIdx]))
    /\ prodIdx' = NextLine(prodIdx)
    /\ UNCHANGED << flagVars, concurrency, fileOk, lines, mainPc, hostsClosed,
                    resultsClosed, doneClosed, prodPc, workers, wg, closerPc,
                    received, nProbes, enqueued, seenSigs, openConns, call, ret, pollVars >>

\* queueHosts "case hosts <- host" meeting processQueue "for host := range
\* hosts" of an idle worker (hosts is unbuffered); the worker goes on to call
\* checkHost(host)
ProducerSend ==
    /\ prodPc = "loop"
    /\ prodIdx <= Len(lines)
    /\ ~SkippedLine(TrimSpace(lines[prodIdx]))
    /\ BagIn(idleWorker, workers)
    /\ ~hostsClosed
    /\ workers' = Moved(workers, idleWorker,
                        [ idleWorker EXCEPT !.pc = "probe",
                                            !.host = TrimSpace(lines[prodIdx]) ])
    /\ prodIdx' = NextLine(prodIdx)
    /\ nProbes' = nProbes + 1
    /\ enqueued' = Append(enqueued, TrimSpace(lines[prodIdx]))
    /\ UNCHANGED << flagVars, concurrency, fileOk, lines, mainPc, hostsClosed,
                    resultsClosed, doneClosed, prodPc, wg, closerPc, received,
                    seenSigs, openConns, call, ret, pollVars >>

\* queueHosts "case <-done: return"
ProducerCancel ==
    /\ prodPc = "loop"
    /\ prodIdx <= Len(lines)
    /\ ~SkippedLine(TrimSpace(lines[prodIdx]))
    /\ doneClosed
    /\ prodPc' = "exit"
    /\ hostsClosed' = hostsClosedOnReturn
    /\ UNCHANGED << flagVars, concurrency, fileOk, lines, mainPc, resultsClosed,
                    doneClosed, prodIdx, workers, wg, closerPc, received, nProbes, enqueued, seenSigs, openConns, call, ret, pollVars >>

\* queueHosts: the loop over the lines ends and the goroutine returns
ProducerFinish ==
    /\ prodPc = "loop"
    /\ prodIdx > Len(lines)
    /\ prodPc' = "exit"
    /\ hostsClosed' = hostsClosedOnReturn
    /\ UNCHANGED << flagVars, concurrency, fileOk, lines, mainPc, resultsClosed,
                    doneClosed, prodIdx, workers, wg, closerPc, received, nProbes, enqueued, seenSigs, openConns, call, ret, pollVars >>

\* checkVerifiedHost / checkUnverfiedHost: "defer conn.Close()" closes the
\* connection when the function returns
connClose_Leak(n) == n
connClose(n) == n - 1

\* the signatures a probe of host over conn enters in its checkedCerts map
RecordedSigs(host, conn) ==
    IF InsecurePrefix(host) THEN {}
    ELSE UNION { { conn.VerifiedChains[c][k].sig : k \in DOMAIN conn.VerifiedChains[c] } :
                 c \in DOMAIN conn.VerifiedChains }

\* processQueue, in checkHost(host) of worker wk: tls.Dial returns. On an
\* error no connection is open and checkHost returns the error; otherwise the
\* connection is open
WorkerDial(wk) ==
    /\ BagIn(wk, workers)
    /\ wk.pc = "probe"
    /\ \E conn \in PoolConns :
         IF conn.err # errNil
         THEN /\ workers' = Moved(workers, wk,
                                  [ wk EXCEPT !.pc = "send",
                                              !.res = checkHost(wk.host, conn, poolNow) ])
              /\ UNCHANGED openConns
         ELSE /\ workers' = Moved(workers, wk,
                                  [ wk EXCEPT !.pc = "connected", !.conn = conn ])
              /\ openConns' = openConns + 1
    /\ UNCHANGED << flagVars, concurrency, fileOk, lines, mainPc, hostsClosed,
                    resultsClosed, doneClosed, prodPc, prodIdx, wg, closerPc,
                    received, nProbes, enqueued, seenSigs, call, ret, pollVars >>

\* processQueue, in checkHost(host) of worker wk: the certificates of the
\* open connection are walked, the function returns and the deferred
\* conn.Close() runs
WorkerProbe(wk) ==
    /\ BagIn(wk, workers)
    /\ wk.pc = "connected"
    /\ workers' = Moved(workers, wk,
                        [ wk EXCEPT !.pc = "send", !.conn = noConn,
                                    !.res = checkHost(wk.host, wk.conn, poolNow) ])
    /\ seenSigs' = seenSigs \cup RecordedSigs(wk.host, wk.conn)
    /\ openConns' = connClose(openConns)
    /\ UNCHANGED << flagVars, concurrency, fileOk, lines, mainPc, hostsClosed,
                    resultsClosed, doneClosed, prodPc, prodIdx, wg, closerPc,
                    received, nProbes, enqueued, call, ret, pollVars >>

\* the cases of processQueue's select that can proceed: the send when the
\* aggregator is at its receive and results is open, "<-done" when done is
\* closed; Go picks among the ready cases at random
SelectReady ==
    (IF mainPc = "range" /\ ~resultsClosed THEN { "results" } ELSE {})
    \cup (IF doneClosed THEN { "done" } ELSE {})

\* processQueue: the select of worker wk. "case results <- r" meets the
\* aggregator's "for r := range results" (results is unbuffered); "case
\* <-done" returns, dropping the result, and the goroutine calls wg.Done()
WorkerSelect(wk) ==
    /\ BagIn(wk, workers)
    /\ wk.pc = "send"
    /\ \E branch \in SelectReady :
         IF branch = "results"
         THEN /\ received' = Append(received, wk.res)
              /\ workers' = Moved(workers, wk, idleWorker)
              /\ UNCHANGED wg
         ELSE /\ workers' = Moved(workers, wk, exitedWorker)
              /\ wg' = wg - 1
              /\ UNCHANGED received
    /\ UNCHANGED << flagVars, concurrency, fileOk, lines, mainPc, hostsClosed,
                    resultsClosed, doneClosed, prodPc, prodIdx, closerPc, nProbes, enqueued, seenSigs, openConns, call, ret, pollVars >>

\* processQueue: hosts is closed, the range ends, processQueue returns and the
\* goroutine calls wg.Done()
WorkerExit ==
    /\ BagIn(idleWorker, workers)
    /\ hostsClosed
    /\ workers' = Moved(workers, idleWorker, exitedWorker)
    /\ wg' = wg - 1
    /\ UNCHANGED << flagVars, concurrency, fileOk, lines, mainPc, hostsClosed,
                    resultsClosed, doneClosed, prodPc, prodIdx, closerPc, received,
                    nProbes, enqueued, seenSigs, openConns, call, ret, pollVars >>

\* processHosts, lines 122-125: wg.Wait() returns and results is closed
Closer ==
    /\ closerPc = "wait"
    /\ wg = 0
    /\ resultsClosed' = TRUE
    /\ closerPc' = "exit"
    /\ UNCHANGED << flagVars, concurrency, fileOk, lines, mainPc, hostsClosed,
                    doneClosed, prodPc, prodIdx, workers, wg, received, nProbes, enqueued, seenSigs, openConns, call, ret, pollVars >>

\* processHosts: "for r := range results" ends on the closed channel, the
\* function returns and the deferred close(done) runs
ProcessHostsReturn ==
    /\ mainPc = "range"
    /\ resultsClosed
    /\ mainPc' = "returned"
    /\ doneClosed' = TRUE
    /\ UNCHANGED << flagVars, concurrency, fileOk, lines, hostsClosed, resultsClosed,
                    prodPc, prodIdx, workers, wg, closerPc, received, nProbes, enqueued, seenSigs, openConns, call, ret, pollVars >>

(***************************************************************************)
(* The pure functions, applied to the call under test.                     *)
(***************************************************************************)
CallCheckCert ==
    /\ call.fn = "checkCert"
    /\ ret = << >>
    /\ ret' = << checkCert(call.host, call.certNum, call.certs, call.timeNow) >>
    /\ UNCHANGED << flagVars, poolVars, pollVars, call >>

CallCheckVerifiedHost ==
    /\ call.fn = "checkVerifiedHost"
    /\ ret = << >>
    /\ ret' = << checkVerifiedHost(call.host, call.conn, call.timeNow) >>
    /\ UNCHANGED << flagVars, poolVars, pollVars, call >>

CallCheckUnverfiedHost ==
    /\ call.fn = "checkUnverfiedHost"
    /\ ret = << >>
    /\ ret' = << checkUnverfiedHost(call.host, call.conn, call.timeNow) >>
    /\ UNCHANGED << flagVars, poolVars, pollVars, call >>

CallCheckHost ==
    /\ call.fn = "checkHost"
    /\ ret = << >>
    /\ ret' = << checkHost(call.host, call.conn, call.timeNow) >>
    /\ UNCHANGED << flagVars, poolVars, pollVars, call >>

(***************************************************************************)
(* Specifications.                                                         *)
(***************************************************************************)
\* the variables of the polling program while the other program is examined
PollAside ==
    /\ checkHosts = << >>
    /\ checkCertChan = << >>
    /\ processingChan = 0
    /\ pollPc = "aside"
    /\ hostIdx = 0
    /\ processors = EmptyBag
    /\ nChecked = 0

\* the pool's variables before processHosts is called
PoolNotStarted ==
    /\ hostsClosed = FALSE
    /\ resultsClosed = FALSE
    /\ doneClosed = FALSE
    /\ prodPc = "none"
    /\ prodIdx = 0
    /\ workers = EmptyBag
    /\ wg = 0
    /\ closerPc = "none"
    /\ received = << >>
    /\ nProbes = 0
    /\ enqueued = << >>
    /\ seenSigs = {}
    /\ openConns = 0

\* the values of the -years, -months and -days flags explored
WarnFlags == (-2)..MaxWarn

\* the command lines explored: the flags as flag.Parse() leaves them
MainCalls ==
    { [ fn |-> "main", warnYears |-> y, warnMonths |-> m, warnDays |-> d,
        concurrency |-> c ] :
      y \in WarnFlags, m \in WarnFlags, d \in WarnFlags, c \in ConcurrencyFlags }

\* main up to its call of processHosts, for each of the command lines
InitMain ==
    /\ call \in MainCalls
    /\ warnYears = call.warnYears
    /\ warnMonths = call.warnMonths
    /\ warnDays = call.warnDays
    /\ concurrency = call.concurrency
    /\ checkSigAlg = TRUE
    /\ startTime = poolNow
    /\ fileOk = TRUE
    /\ lines = << >>
    /\ mainPc = "main"
    /\ PoolNotStarted
    /\ PollAside
    /\ ret = << >>

SpecMain == InitMain /\ [][Main]_vars

\* a run of the program: the flags as parsed, the hosts file as found
Init ==
    /\ warnYears = 0
    /\ warnMonths = 0
    /\ warnDays = 0
    /\ checkSigAlg = TRUE
    /\ startTime = poolNow
    /\ concurrency \in ConcurrencyFlags
    /\ fileOk \in BOOLEAN
    /\ lines \in (IF fileOk THEN SeqsUpTo(LineSet, 0, MaxLines) ELSE { << >> })
    /\ mainPc = "main"
    /\ PoolNotStarted
    /\ PollAside
    /\ call = NoCall
    /\ ret = << >>

Next ==
    \/ Main
    \/ ProcessHostsStart
    \/ ProducerRead
    \/ ProducerSkip
    \/ ProducerSend
    \/ ProducerCancel
    \/ ProducerFinish
    \/ \E wk \in BagToSet(workers) : WorkerDial(wk)
    \/ \E wk \in BagToSet(workers) : WorkerProbe(wk)
    \/ \E wk \in BagToSet(workers) : WorkerSelect(wk)
    \/ WorkerExit
    \/ Closer
    \/ ProcessHostsReturn

Spec == Init /\ [][Next]_vars

\* the runs over hosts files of one host line and one comment line, repeated
InitFair == Init /\ \A i \in DOMAIN lines : lines[i] \in FairLineSet

\* the Go scheduler runs some runnable goroutine, and every probe returns
FairSpec == InitFair /\ [][Next]_vars /\ WF_vars(Next)

\* the pool's variables while a function is examined on its own
PoolAside ==
    /\ concurrency = defaultConcurrency
    /\ fileOk = TRUE
    /\ lines = << >>
    /\ mainPc = "aside"
    /\ PoolNotStarted

\* calls of checkCert, under the windows and instants of the input domains
InitCert ==
    /\ \E win \in WarnWindows :
         warnYears = win[1] /\ warnMonths = win[2] /\ warnDays = win[3]
    /\ checkSigAlg \in BOOLEAN
    /\ \E timeNow \in NowSet :
         /\ startTime \in { timeNow - lag : lag \in StartLagSet }
         /\ call \in CheckCertCalls(timeNow)
    /\ ret = << >>
    /\ PoolAside
    /\ PollAside

SpecCert == InitCert /\ [][CallCheckCert]_vars

\* calls of checkHost, checkVerifiedHost and checkUnverfiedHost, under the
\* default window
InitHost ==
    /\ warnYears = 0
    /\ warnMonths = 0
    /\ warnDays = defaultWarnDays
    /\ checkSigAlg \in BOOLEAN
    /\ startTime = poolNow
    /\ call \in CheckHostCalls(poolNow) \cup CheckHostLineCalls(poolNow)
    /\ ret = << >>
    /\ PoolAside
    /\ PollAside

NextHost == CallCheckVerifiedHost \/ CallCheckUnverfiedHost \/ CallCheckHost

SpecHost == InitHost /\ [][NextHost]_vars

(***************************************************************************)
(* The polling program (check-certs.go): main queues the hosts of the      *)
(* command line on checkCertChan, four goroutines of processHost take      *)
(* them, and main polls the lengths of the two channels to know when to    *)
(* return, which ends the process.                                         *)
(***************************************************************************)
\* the hosts a command line is made of
PollHostSet == { << "a" >>, << "b" >> }

\* a goroutine of processHost at "host := <-hostChan"
idleProcessor == [ pc |-> "recv", host |-> << >> ]

\* the goroutines of processHost in one of the given positions
ProcessorsAt(pcs) == { pr \in BagToSet(processors) : pr.pc \in pcs }

\* main, lines 55-62: the channels are made and the goroutines started
PollMainStart ==
    /\ pollPc = "main"
    /\ processors' = [ pr \in { idleProcessor } |-> maxConnections ]
    /\ hostIdx' = 1
    /\ pollPc' = "send"
    /\ UNCHANGED << flagVars, poolVars, call, ret, checkHosts, checkCertChan,
                    processingChan, nChecked >>

\* main, lines 64-66: "checkCertChan <- host", which waits while the buffer
\* of maxConnections hosts is full; after the last host main goes on to poll
PollMainSend ==
    /\ pollPc = "send"
    /\ hostIdx <= Len(checkHosts)
    /\ Len(checkCertChan) < maxConnections
    /\ checkCertChan' = Append(checkCertChan, checkHosts[hostIdx])
    /\ hostIdx' = hostIdx + 1
    /\ pollPc' = IF hostIdx = Len(checkHosts) THEN "lenCheckCertChan" ELSE "send"
    /\ UNCHANGED << flagVars, poolVars, call, ret, checkHosts, processingChan,
                    processors, nChecked >>

\* main, line 69: "len(checkCertChan) == 0", the left operand of &&
PollLenCheckCertChan ==
    /\ pollPc = "lenCheckCertChan"
    /\ pollPc' = IF Len(checkCertChan) = 0 THEN "lenProcessingChan" ELSE "sleep"
    /\ UNCHANGED << flagVars, poolVars, call, ret, checkHosts, checkCertChan,
                    processingChan, hostIdx, processors, nChecked >>

\* main, lines 69-70: "len(processingChan) == 0", the right operand, read
\* after the left one; when both were 0 main breaks and returns
PollLenProcessingChan ==
    /\ pollPc = "lenProcessingChan"
    /\ pollPc' = IF processingChan = 0 THEN "exited" ELSE "sleep"
    /\ UNCHANGED << flagVars, poolVars, call, ret, checkHosts, checkCertChan,
                    processingChan, hostIdx, processors, nChecked >>

\* main, line 72: time.Sleep returns and the loop starts over
PollSleep ==
    /\ pollPc = "sleep"
    /\ pollPc' = "lenCheckCertChan"
    /\ UNCHANGED << flagVars, poolVars, call, ret, checkHosts, checkCertChan,
                    processingChan, hostIdx, processors, nChecked >>

\* processHost, line 78: "host := <-hostChan"
ProcessHostReceive ==
    /\ pollPc # "exited"
    /\ BagIn(idleProcessor, processors)
    /\ checkCertChan # << >>
    /\ processors' = Moved(processors, idleProcessor,
                           [ pc |-> "mark", host |-> Head(checkCertChan) ])
    /\ checkCertChan' = Tail(checkCertChan)
    /\ UNCHANGED << flagVars, poolVars, call, ret, checkHosts, processingChan,
                    pollPc, hostIdx, nChecked >>

\* processHost, line 79: "processing <- nil"; the buffer holds
\* maxConnections+1 markers
ProcessHostMark(pr) ==
    /\ pollPc # "exited"
    /\ BagIn(pr, processors)
    /\ pr.pc = "mark"
    /\ processingChan < maxConnections + 1
    /\ processingChan' = processingChan + 1
    /\ processors' = Moved(processors, pr, [ pr EXCEPT !.pc = "checkCert" ])
    /\ UNCHANGED << flagVars, poolVars, call, ret, checkHosts, checkCertChan,
                    pollPc, hostIdx, nChecked >>

\* processHost, line 80: checkCert(host) returns
ProcessHostCheckCert(pr) ==
    /\ pollPc # "exited"
    /\ BagIn(pr, processors)
    /\ pr.pc = "checkCert"
    /\ nChecked' = nChecked + 1
    /\ processors' = Moved(processors, pr, [ pr EXCEPT !.pc = "unmark" ])
    /\ UNCHANGED << flagVars, poolVars, call, ret, checkHosts, checkCertChan,
                    processingChan, pollPc, hostIdx >>

\* processHost, line 81: "<-processing", and the loop starts over
ProcessHostUnmark(pr) ==
    /\ pollPc # "exited"
    /\ BagIn(pr, processors)
    /\ pr.pc = "unmark"
    /\ processingChan > 0
    /\ processingChan' = processingChan - 1
    /\ processors' = Moved(processors, pr, idleProcessor)
    /\ UNCHANGED << flagVars, poolVars, call, ret, checkHosts, checkCertChan,
                    pollPc, hostIdx, nChecked >>

\* a run of the polling program: init() has left at least one host
InitPoll ==
    /\ warnYears = 0
    /\ warnMonths = 0
    /\ warnDays = defaultWarnDays
    /\ checkSigAlg = TRUE
    /\ startTime = poolNow
    /\ PoolAside
    /\ call = NoCall
    /\ ret = << >>
    /\ checkHosts \in SeqsUpTo(PollHostSet, 1, MaxHosts)
    /\ checkCertChan = << >>
    /\ processingChan = 0
    /\ pollPc = "main"
    /\ hostIdx = 0
    /\ processors = EmptyBag
    /\ nChecked = 0

NextPoll ==
    \/ PollMainStart
    \/ PollMainSend
    \/ PollLenCheckCertChan
    \/ PollLenProcessingChan
    \/ PollSleep
    \/ ProcessHostReceive
    \/ \E pr \in BagToSet(processors) : ProcessHostMark(pr)
    \/ \E pr \in BagToSet(processors) : ProcessHostCheckCert(pr)
    \/ \E pr \in BagToSet(processors) : ProcessHostUnmark(pr)

SpecPoll == InitPoll /\ [][NextPoll]_vars

(***************************************************************************)
(* The pool: what is claimed of processHosts.                              *)
(***************************************************************************)
\* the targets of a hosts file: its trimmed lines that are not passed over
Targets(ls) ==
    SelectSeq([ i \in 1..Len(ls) |-> TrimSpace(ls[i]) ],
              LAMBDA host : ~SkippedLine(host))

\* the host a target's result names
ResultHost(target) ==
    IF InsecurePrefix(target) THEN SubSeq(target, 3, Len(target)) ELSE target

Occurrences(seq, x) == Cardinality({ i \in DOMAIN seq : seq[i] = x })

\* the number of goroutines of the pool in one of the given positions
NumWorkersAt(pcs) ==
    BagCardinality([ wk \in WorkersAt(pcs) |-> CopiesIn(wk, workers) ])

ReceivedHosts == [ i \in DOMAIN received |-> received[i].host ]
TargetHosts == [ i \in DOMAIN Targets(lines) |-> ResultHost(Targets(lines)[i]) ]

\* C1: with concurrency >= 1, every probe started is in progress, held by a
\* worker or received (none lost, none doubled), and when processHosts has
\* returned the aggregator has received exactly one result per target of the
\* file, whichever dials failed.
C1_OneResultPerTarget ==
    (mainPc \in { "range", "returned" } /\ concurrency >= 1) =>
        /\ nProbes = Len(received) + NumWorkersAt({ "probe", "connected", "send" })
        /\ nProbes <= Len(Targets(lines))
        /\ mainPc = "returned" =>
             /\ nProbes = Len(Targets(lines))
             /\ Len(received) = Len(Targets(lines))
             /\ \A i \in DOMAIN TargetHosts :
                  Occurrences(ReceivedHosts, TargetHosts[i])
                    = Occurrences(TargetHosts, TargetHosts[i])

\* C1 witness: three targets, processHosts has returned, one result bears the
\* dial error and the two others their certificates.
C1_Witness ==
    /\ mainPc = "returned"
    /\ concurrency >= 1
    /\ Len(Targets(lines)) = 3
    /\ Len(received) = 3
    /\ Cardinality({ i \in DOMAIN received : received[i].err # errNil }) = 1
    /\ Cardinality({ i \in DOMAIN received : received[i].certs # << >> }) = 2

\* C2: a -concurrency value that is not positive is replaced by the default
\* when main checks the flags.
C2_NonPositiveReplaced ==
    [][(mainPc = "main" /\ concurrency <= 0) => concurrency' = defaultConcurrency]_vars

\* C3: results is closed only after hosts has been closed and every worker
\* has returned.
C3_ResultsClosedLast ==
    resultsClosed => (hostsClosed /\ WorkersAt({ "recv", "probe", "connected", "send" }) = {})

\* C3, for a pool of at least one worker: the same, and no worker holds a
\* result for the closed channel.
C3_WithWorkers ==
    (resultsClosed /\ concurrency >= 1) =>
        (hostsClosed /\ WorkersAt({ "recv", "probe", "connected", "send" }) = {})

\* C4: with concurrency >= 1, once processHosts runs it eventually returns,
\* with hosts and results closed and every worker gone.
C4_Terminates ==
    (mainPc = "range" /\ concurrency >= 1)
        ~> (/\ mainPc = "returned"
            /\ hostsClosed
            /\ resultsClosed
            /\ WorkersAt({ "recv", "probe", "connected", "send" }) = {})

\* C4 witness: a run of two workers over three targets has returned.
C4_Witness ==
    /\ mainPc = "returned"
    /\ concurrency = 2
    /\ Len(Targets(lines)) = 3
    /\ hostsClosed
    /\ resultsClosed

\* C5: the number of checkHost calls in progress never exceeds the
\* concurrency processHosts runs with.
C5_ProbesBounded ==
    mainPc # "main" => NumWorkersAt({ "probe", "connected" }) <= concurrency

\* C5 witness: every worker of a pool of two is inside checkHost while the
\* producer holds a further target.
C5_Witness ==
    /\ concurrency = 2
    /\ NumWorkersAt({ "probe", "connected" }) = 2
    /\ prodPc = "loop"
    /\ prodIdx <= Len(lines)
    /\ ~SkippedLine(TrimSpace(lines[prodIdx]))

\* C6: once done is closed no target is enqueued and no probe is started, and
\* a worker inside checkHost stays there or comes out with its result.
C6_NoDispatchAfterDone ==
    [][doneClosed =>
         /\ nProbes' = nProbes
         /\ \A wk \in WorkersAt({ "probe", "connected" }) :
              \/ BagIn(wk, workers')
              \/ \E conn \in PoolConns :
                   BagIn([ wk EXCEPT !.pc = "connected", !.conn = conn ], workers')
              \/ \E conn \in PoolConns :
                   BagIn([ wk EXCEPT !.pc = "send", !.conn = noConn,
                                     !.res = checkHost(wk.host, conn, poolNow) ],
                         workers')
      ]_vars

\* C6 witness: done is closed and the producer has returned through
\* "<-done" with a target it never enqueued.
C6_Witness ==
    /\ doneClosed
    /\ prodPc = "exit"
    /\ prodIdx <= Len(lines)
    /\ nProbes < Len(Targets(lines))

(***************************************************************************)
(* The walk over the certificates of one host.                             *)
(***************************************************************************)
\* the places <<chain, certNum>> of the certificates of a chain set
Places(chains) ==
    { pl \in (1..Len(chains)) \X (0..MaxChainLen) : pl[2] < Len(chains[pl[1]]) }

CertAt(chains, pl) == chains[pl[1]][pl[2] + 1]

\* walking order: chains as supplied, leaf first within a chain
Earlier(p, q) == p[1] < q[1] \/ (p[1] = q[1] /\ p[2] < q[2])

\* the places where a signature occurs for the first time
FirstPlaces(chains) ==
    { pl \in Places(chains) :
        ~\E q \in Places(chains) :
            Earlier(q, pl) /\ CertAt(chains, q).sig = CertAt(chains, pl).sig }

\* the k-th first occurrence in walking order
FirstPlace(chains, k) ==
    CHOOSE pl \in FirstPlaces(chains) :
        Cardinality({ q \in FirstPlaces(chains) : Earlier(q, pl) }) = k - 1

SigsOf(certs) == { certs[i].sig : i \in DOMAIN certs }

\* C7: checkVerifiedHost returns one entry per distinct signature of the
\* verified chains, in the order of first occurrence, each evaluated by
\* checkCert at the position and in the chain of that first occurrence.
C7_DedupFirstOccurrence ==
    (call.fn = "checkVerifiedHost" /\ ret # << >> /\ call.conn.err = errNil) =>
        LET chains == call.conn.VerifiedChains
            certs  == ret[1].certs
        IN  /\ Len(certs) = Cardinality(UNION { SigsOf(chains[c]) : c \in DOMAIN chains })
            /\ Len(certs) = Cardinality(FirstPlaces(chains))
            /\ \A k \in DOMAIN certs :
                 certs[k] = checkCert(call.host, FirstPlace(chains, k)[2],
                                      chains[FirstPlace(chains, k)[1]], call.timeNow)

\* C7 witness: certB is the root of the first chain and the leaf of the
\* second; the result holds it once, without the sunset error a leaf gets.
C7_Witness ==
    /\ call.fn = "checkVerifiedHost"
    /\ ret # << >>
    /\ checkSigAlg
    /\ call.conn.err = errNil
    /\ call.conn.VerifiedChains = << << certA, certB >>, << certB, certA >> >>
    /\ Len(ret[1].certs) = 2
    /\ ret[1].certs[2].commonName = "B"
    /\ ret[1].certs[2].errs = << >>
    /\ checkCert(call.host, 0, << certB, certA >>, call.timeNow).errs # << >>

ExpirationFmts == { "errExpiringShortly", "errExpiringSoon" }

ErrsOfFmt(errs, fmts) == SelectSeq(errs, LAMBDA e : e.fmt \in fmts)

\* h is the number of whole hours in d units: the hours completed, counted
\* toward zero
WholeHours(h, d) ==
    IF d >= 0
    THEN h * UnitsPerHour <= d /\ d < (h + 1) * UnitsPerHour
    ELSE (h - 1) * UnitsPerHour < d /\ d <= h * UnitsPerHour

DefaultWindow == warnYears = 0 /\ warnMonths = 0 /\ warnDays = defaultWarnDays

\* C9: checkCert reports an expiration exactly when timeNow plus the window
\* is after notAfter; then ExpiringShortly with the whole hours h left when
\* h <= 48, and ExpiringSoon with h div 24 otherwise. Under the default
\* window: +40h gives ExpiringShortly 40, +240h ExpiringSoon 10, +400 days
\* nothing.
C9_ExpirationFinding ==
    (call.fn = "checkCert" /\ ret # << >>) =>
        LET cert == call.certs[call.certNum + 1]
            d    == cert.notAfter - call.timeNow
            due  == AddDate(call.timeNow, warnYears, warnMonths, warnDays) > cert.notAfter
            exp  == ErrsOfFmt(ret[1].errs, ExpirationFmts)
        IN  /\ due <=> exp # << >>
            /\ due => /\ Len(exp) = 1
                      /\ exp[1].host = call.host
                      /\ exp[1].cn = cert.cn
                      /\ IF exp[1].fmt = "errExpiringShortly"
                         THEN /\ WholeHours(exp[1].n, d)
                              /\ exp[1].n <= shortlyHours
                         ELSE /\ d >= (shortlyHours + 1) * UnitsPerHour
                              /\ \E h \in (exp[1].n * hoursPerDay)..(exp[1].n * hoursPerDay + hoursPerDay - 1) :
                                   WholeHours(h, d)
                      /\ d < (shortlyHours + 1) * UnitsPerHour
                           => exp[1].fmt = "errExpiringShortly"
            /\ (DefaultWindow /\ d = Hours(40)) =>
                   (Len(exp) = 1 /\ exp[1].fmt = "errExpiringShortly" /\ exp[1].n = 40)
            /\ (DefaultWindow /\ d = Hours(240)) =>
                   (Len(exp) = 1 /\ exp[1].fmt = "errExpiringSoon" /\ exp[1].n = 10)
            /\ (DefaultWindow /\ d = Days(400)) => exp = << >>

\* C9 witness: under the default window a certificate 240 hours from expiry
\* is reported as expiring in 10 days.
C9_Witness ==
    /\ call.fn = "checkCert"
    /\ ret # << >>
    /\ DefaultWindow
    /\ call.certs[call.certNum + 1].notAfter - call.timeNow = Hours(240)
    /\ ErrsOfFmt(ret[1].errs, ExpirationFmts)
         = << ErrExpiringSoon(call.host, call.certs[call.certNum + 1], 10) >>

CallCert == call.certs[call.certNum + 1]
TimeLeft == CallCert.notAfter - call.timeNow
ExpirationOf(errs) == ErrsOfFmt(errs, ExpirationFmts)
SunsetOf(errs) == ErrsOfFmt(errs, { "errSunsetAlg" })

CheckCertReturned == call.fn = "checkCert" /\ ret # << >>

\* timeNow plus the warning window is after notAfter
InWindow == AddDate(call.timeNow, warnYears, warnMonths, warnDays) > CallCert.notAfter

\* C11: for a certificate that is not the last of its list, checkCert returns
\* a sunset error exactly when check-sig-alg is on, the algorithm is in
\* sunsetSigAlgs and notAfter is on or after the entry's sunset date; with
\* check-sig-alg off there is none.
C11_SunsetExactly ==
    (CheckCertReturned /\ call.certNum # Len(call.certs) - 1) =>
        LET sun == SunsetOf(ret[1].errs)
        IN  /\ sun # << >> <=>
                 /\ checkSigAlg
                 /\ CallCert.alg \in SunsetAlgs
                 /\ CallCert.notAfter >= sunsetSigAlgs(CallCert.alg).sunsetsAt
            /\ ~checkSigAlg => sun = << >>
            /\ sun # << >> =>
                 sun = << ErrSunsetAlg(call.host, CallCert,
                                       sunsetSigAlgs(CallCert.alg).name) >>

\* C11 witness: a SHA1 leaf of a list of two that expires at the very instant
\* 2017-01-01T00:00:00Z gets the sunset error.
C11_Witness ==
    /\ CheckCertReturned
    /\ checkSigAlg
    /\ call.certNum = 0
    /\ Len(call.certs) = 2
    /\ CallCert.alg = "SHA1WithRSA"
    /\ CallCert.notAfter = Date(2017, 1, 1, 0)
    /\ SunsetOf(ret[1].errs) = << ErrSunsetAlg(call.host, CallCert, "SHA1 with RSA") >>

\* C15 as claimed: the hours an ExpiringShortly error reports are the floor
\* of the time from timeNow to notAfter in hours, also when that time is
\* negative.
C15_HoursFloor ==
    CheckCertReturned =>
        \A i \in DOMAIN ret[1].errs :
            ret[1].errs[i].fmt = "errExpiringShortly" =>
                /\ ret[1].errs[i].n * UnitsPerHour <= TimeLeft
                /\ TimeLeft < (ret[1].errs[i].n + 1) * UnitsPerHour

\* C15 as amended: the hours an ExpiringShortly error reports are the time
\* from timeNow to notAfter in hours with the fraction dropped: the floor
\* when that time is not negative, the ceiling when it is.
C15_HoursTruncated ==
    CheckCertReturned =>
        \A i \in DOMAIN ret[1].errs :
            ret[1].errs[i].fmt = "errExpiringShortly" =>
                IF TimeLeft >= 0
                THEN /\ ret[1].errs[i].n * UnitsPerHour <= TimeLeft
                     /\ TimeLeft < (ret[1].errs[i].n + 1) * UnitsPerHour
                ELSE /\ (ret[1].errs[i].n - 1) * UnitsPerHour < TimeLeft
                     /\ TimeLeft <= ret[1].errs[i].n * UnitsPerHour

\* C15 witness: a certificate that expired an hour and a fraction ago is
\* reported as expiring in -1 hours.
C15_Witness ==
    /\ CheckCertReturned
    /\ TimeLeft = -Hours(1) - 1
    /\ ExpirationOf(ret[1].errs) = << ErrExpiringShortly(call.host, CallCert, -1) >>

\* C16 as claimed: ExpiringSoon only when more than 48 hours are left and
\* the certificate is inside the window, ExpiringShortly only when at most
\* 48 hours are left.
C16_PartitionAt48Hours ==
    CheckCertReturned =>
        \A i \in DOMAIN ret[1].errs :
            /\ ret[1].errs[i].fmt = "errExpiringSoon" =>
                   (TimeLeft > Hours(shortlyHours) /\ InWindow)
            /\ ret[1].errs[i].fmt = "errExpiringShortly" =>
                   TimeLeft <= Hours(shortlyHours)

\* C16 as amended: the horizon is 48 whole hours, that is 49 hours of real
\* time: ExpiringSoon only when at least 49 hours are left and the
\* certificate is inside the window, ExpiringShortly only when less than 49
\* hours are left, and a certificate inside the window gets the one or the
\* other.
C16_PartitionAtWholeHours ==
    CheckCertReturned =>
        LET exp == ExpirationOf(ret[1].errs)
        IN  /\ \A i \in DOMAIN exp :
                 /\ InWindow
                 /\ exp[i].fmt = "errExpiringSoon" => TimeLeft >= Hours(shortlyHours + 1)
                 /\ exp[i].fmt = "errExpiringShortly" => TimeLeft < Hours(shortlyHours + 1)
            /\ InWindow => Len(exp) = 1

\* C16 witness: with 48 hours and a fraction left the certificate is reported
\* as expiring in 48 hours.
C16_Witness ==
    /\ CheckCertReturned
    /\ TimeLeft = Hours(shortlyHours) + 1
    /\ ExpirationOf(ret[1].errs) = << ErrExpiringShortly(call.host, CallCert, shortlyHours) >>

\* C17: checkCert returns at most one expiration error and at most one sunset
\* error, the expiration error first; whether the one is there depends on
\* the window alone and whether the other is there on the sunset table alone.
C17_FindingsOrdered ==
    CheckCertReturned =>
        LET errs == ret[1].errs
            exp  == ExpirationOf(errs)
            sun  == SunsetOf(errs)
        IN  /\ Len(exp) <= 1
            /\ Len(sun) <= 1
            /\ Len(errs) = Len(exp) + Len(sun)
            /\ (exp # << >> /\ sun # << >>) =>
                   (errs[1].fmt \in ExpirationFmts /\ errs[2].fmt = "errSunsetAlg")
            /\ exp # << >> <=> InWindow
            /\ sun # << >> <=>
                 /\ checkSigAlg
                 /\ CallCert.alg \in SunsetAlgs
                 /\ call.certNum # Len(call.certs) - 1
                 /\ CallCert.notAfter >= sunsetSigAlgs(CallCert.alg).sunsetsAt

\* C17 witness: a SHA1 leaf expiring on 2017-01-01, 22 days from timeNow,
\* gets the two errors, ExpiringSoon first.
C17_Witness ==
    /\ CheckCertReturned
    /\ DefaultWindow
    /\ call.timeNow = Date(2016, 12, 10, 0)
    /\ CallCert.notAfter = Date(2017, 1, 1, 0)
    /\ ret[1].errs = << ErrExpiringSoon(call.host, CallCert, 22),
                        ErrSunsetAlg(call.host, CallCert, "SHA1 with RSA") >>

(***************************************************************************)
(* The probe of one line of the hosts file.                                *)
(***************************************************************************)
HostCallReturned ==
    call.fn \in { "checkHost", "checkVerifiedHost", "checkUnverfiedHost" } /\ ret # << >>

\* the line starts with the letter i and a blank
StartsWithIBlank(line) ==
    IF Len(line) >= 2 THEN line[1] = "i" /\ line[2] = " " ELSE FALSE

\* the line without its first two characters
AfterTwo(line) == [ k \in 1..(Len(line) - 2) |-> line[k + 2] ]

\* C13: a line that starts with "i " is probed without verification at the
\* address that follows these two characters; every other line, the line "i"
\* among them, is probed with verification at the whole line.
C13_ModeByPrefix ==
    (call.fn = "checkHost" /\ ret # << >>) =>
        IF StartsWithIBlank(call.host)
        THEN /\ ret[1].host = AfterTwo(call.host)
             /\ ret[1] = checkUnverfiedHost(AfterTwo(call.host), call.conn, call.timeNow)
        ELSE /\ ret[1].host = call.host
             /\ ret[1] = checkVerifiedHost(call.host, call.conn, call.timeNow)

\* C13 witness: the line "i b" is probed at "b" without verification: the
\* result is the one of the peer's list, which differs from the one of the
\* verified chain.
C13_Witness ==
    /\ call.fn = "checkHost"
    /\ ret # << >>
    /\ checkSigAlg
    /\ call.host = << "i", " ", "b" >>
    /\ call.conn = leafOnlyConn
    /\ ret[1].host = << "b" >>
    /\ Len(ret[1].certs) = 1
    /\ ret[1].certs[1].errs = << >>
    /\ ret[1].certs # checkVerifiedHost(<< "b" >>, call.conn, call.timeNow).certs

\* whether the call under test probes without verification
InsecureCall ==
    \/ call.fn = "checkUnverfiedHost"
    \/ call.fn = "checkHost" /\ InsecurePrefix(call.host)

\* the signatures of the certificates the call under test walks over
WalkedSigs ==
    IF InsecureCall
    THEN SigsOf(call.conn.PeerCertificates)
    ELSE UNION { SigsOf(call.conn.VerifiedChains[c]) : c \in DOMAIN call.conn.VerifiedChains }

NonNegative(v) == IF v < 0 THEN 0 ELSE v

\* C14: when main has checked the flags, the three components of the window
\* are the flags with the negative ones replaced by 0, except that warnDays is
\* 30 when all three would be 0; so none is negative, not all are 0, and a
\* window of non-negative flags of which one is positive is the flags' own.
C14_WindowNormalised ==
    (call.fn = "main" /\ mainPc # "main") =>
        LET y == NonNegative(call.warnYears)
            m == NonNegative(call.warnMonths)
            d == NonNegative(call.warnDays)
        IN  /\ warnYears >= 0 /\ warnMonths >= 0 /\ warnDays >= 0
            /\ warnYears + warnMonths + warnDays > 0
            /\ warnYears = y
            /\ warnMonths = m
            /\ warnDays = IF y = 0 /\ m = 0 /\ d = 0 THEN defaultWarnDays ELSE d
            /\ (y + m + d > 0) => << warnYears, warnMonths, warnDays >> = << y, m, d >>
            /\ (/\ call.warnYears >= 0 /\ call.warnMonths >= 0 /\ call.warnDays >= 0
                /\ call.warnYears + call.warnMonths + call.warnDays > 0) =>
                   << warnYears, warnMonths, warnDays >>
                     = << call.warnYears, call.warnMonths, call.warnDays >>

\* C14 witness: -years -1 -months 0 -days -2 has become a window of 30 days.
C14_Witness ==
    /\ call.fn = "main"
    /\ mainPc = "processHosts"
    /\ call.warnYears = -1
    /\ call.warnMonths = 0
    /\ call.warnDays = -2
    /\ << warnYears, warnMonths, warnDays >> = << 0, 0, defaultWarnDays >>

(***************************************************************************)
(* The pool: the lines enqueued, the maps of the probes, the connections.  *)
(***************************************************************************)
\* the first n lines of the file that, trimmed, are not empty and do not
\* start with '#', trimmed and in file order
TargetsAmong(ls, n) ==
    SelectSeq([ i \in 1..n |-> TrimSpace(ls[i]) ],
              LAMBDA host : IF host = << >> THEN FALSE ELSE host[1] # "#")

\* C12: what queueHosts has sent on hosts is, at any moment, the targets
\* among the lines it has passed, in file order and each once, and all the
\* targets of the file when it has passed every line; blank, whitespace-only
\* and comment lines are never sent, and no result is received for them.
C12_EnqueuedAreTargets ==
    /\ enqueued = TargetsAmong(lines, prodIdx - 1)
    /\ (prodPc = "exit" /\ prodIdx > Len(lines)) =>
           enqueued = TargetsAmong(lines, Len(lines))
    /\ Len(received) <= Len(enqueued)
    /\ \A i \in DOMAIN received :
         \E j \in DOMAIN enqueued : received[i].host = ResultHost(enqueued[j])

\* C12 witness: of a file of a host between blanks, a comment and a blank
\* line, the host alone has been sent, trimmed, and has its result.
C12_Witness ==
    /\ lines = << << " ", "a", "\t" >>, << "#", "c" >>, << " " >> >>
    /\ prodPc = "exit"
    /\ mainPc = "returned"
    /\ enqueued = << << "a" >> >>
    /\ Len(received) = 1
    /\ received[1].host = << "a" >>

\* the results of the probes made so far: received, or held by a worker
PoolResults ==
    { received[i] : i \in DOMAIN received }
    \cup { wk.res : wk \in WorkersAt({ "send" }) }

CommonNames(certs) == [ k \in DOMAIN certs |-> certs[k].commonName ]

\* C19: whatever was probed before or is probed at the same time, the result
\* of a probe that connected holds the entries of its own connection: here
\* the certificates A and B, none suppressed by a signature met in the probe
\* of another host.
C19_FreshMapPerProbe ==
    \A r \in PoolResults :
        r.err = errNil => CommonNames(r.certs) = << "A", "B" >>

\* C19 witness: one worker has probed the host "a" twice over, one probe
\* after the other, and both results hold A and B.
C19_Witness ==
    /\ concurrency = 1
    /\ seenSigs = { "sigA", "sigB" }
    /\ Len(received) >= 2
    /\ \A i \in 1..2 :
         /\ received[i].host = << "a" >>
         /\ received[i].err = errNil
         /\ CommonNames(received[i].certs) = << "A", "B" >>

\* C20: the open connections are those of the probes between their dial and
\* their return, at most one each: never more than the pool has workers, and
\* none once processHosts has returned.
C20_ConnectionsClosed ==
    /\ openConns = NumWorkersAt({ "connected" })
    /\ mainPc # "main" => openConns <= concurrency
    /\ mainPc = "returned" => openConns = 0

\* C20 witness: processHosts has returned after a probe that connected and a
\* probe whose dial failed, and no connection is open.
C20_Witness ==
    /\ mainPc = "returned"
    /\ openConns = 0
    /\ \E i \in DOMAIN received : received[i].err = errNil /\ received[i].certs # << >>
    /\ \E i \in DOMAIN received : received[i].err = errDial

(***************************************************************************)
(* The pool: the channel done and the hosts file that cannot be read.      *)
(***************************************************************************)
\* C21: done is closed in one step only, the return of processHosts, taken
\* when results is closed and no worker is left with a host or a result;
\* once closed it stays closed; and a worker that holds a computed result
\* keeps it until the aggregator has received it, so that every probe
\* started is in progress, held or received.
C21_DoneClosedLast ==
    [][/\ (~doneClosed /\ doneClosed') =>
              /\ mainPc = "range" /\ mainPc' = "returned"
              /\ resultsClosed
              /\ WorkersAt({ "probe", "connected", "send" }) = {}
              /\ Len(received) = nProbes
       /\ doneClosed => doneClosed'
       /\ \A wk \in WorkersAt({ "send" }) :
              \/ CopiesIn(wk, workers') >= CopiesIn(wk, workers)
              \/ received' = Append(received, wk.res)
       /\ nProbes' = Len(received') + NumWorkersAt({ "probe", "connected", "send" })'
      ]_vars

\* C21 witness: processHosts has returned and closed done after a pool of two
\* delivered the results of two targets.
C21_Witness ==
    /\ mainPc = "returned"
    /\ doneClosed
    /\ resultsClosed
    /\ concurrency = 2
    /\ nProbes = 2
    /\ Len(received) = 2

\* C23: when the hosts file cannot be read nothing is enqueued, no probe is
\* started and no result is received, and processHosts, once it runs,
\* returns: hosts and results are closed and every worker has exited.
C23_UnreadableFileReturns ==
    /\ [](~fileOk => (enqueued = << >> /\ nProbes = 0 /\ received = << >>))
    /\ (~fileOk /\ mainPc = "range")
           ~> (/\ mainPc = "returned"
               /\ hostsClosed
               /\ resultsClosed
               /\ WorkersAt({ "recv", "probe", "connected", "send" }) = {}
               /\ received = << >>)

\* C23 witness: the file could not be read and processHosts has returned
\* with its two workers gone and nothing received.
C23_Witness ==
    /\ ~fileOk
    /\ mainPc = "returned"
    /\ concurrency = 2
    /\ hostsClosed
    /\ resultsClosed
    /\ NumWorkersAt({ "exit" }) = 2
    /\ received = << >>

(***************************************************************************)
(* The polling program: main's wait loop.                                  *)
(***************************************************************************)
\* C22: when main of the polling program has left its wait loop, checkCert
\* has returned for every host of the command line, and no goroutine of
\* processHost has a host that it took from checkCertChan and has not
\* finished checking.
C22_ExitAfterAllChecked ==
    pollPc = "exited" =>
        /\ nChecked = Len(checkHosts)
        /\ ProcessorsAt({ "mark", "checkCert" }) = {}

====
